---------------------------- MODULE Spec2Model ----------------------------
(***************************************************************************)
(* A model of methods/abstractdiffusion.py: the tiled-diffusion            *)
(* coordinator (TiledDiffusion) with its tile geometry, batching, region   *)
(* configuration and the two conditioning dispatch protocols.              *)
(*                                                                         *)
(* The module holds several specifications over one set of variables:      *)
(*   SpecTiles    the constructor (__init__ and split_views)               *)
(*   SpecRegions  init_custom_bbox and init on a constructed coordinator   *)
(*   SpecKdiff    kdiff_custom_forward under an advancing sampler step     *)
(*   SpecDdim     ddim_custom_forward                                      *)
(***************************************************************************)
EXTENDS Integers, Sequences, FiniteSets, TLC

VARIABLES
    pc,                 \* where the coordinator is: "new", "constructed", "idle", "select"
    last_call,          \* the most recent call and its arguments (history)
    error,              \* the exception the most recent call raised, or None
    \* TiledDiffusion.__init__
    is_kdiff,           \* self.is_kdiff
    w, h,               \* self.w, self.h: the canvas in latent cells
    tile_w, tile_h,     \* self.tile_w, self.tile_h
    weights,            \* self.weights: [<<y, x>> -> weight]
    batched_bboxes,     \* self.batched_bboxes
    num_batches,        \* self.num_batches
    tile_batch_size,    \* self.tile_batch_size
    custom_bboxes,      \* self.custom_bboxes
    draw_background,    \* self.draw_background
    pbar,               \* self.pbar: Unset (None) or Some([n, total])
    total_bboxes,       \* self.total_bboxes
    \* kdiff_custom_forward
    is_edit_model,      \* self.is_edit_model: Unset (no attribute) or Some(flag)
    batch_cond_uncond,  \* shared.batch_cond_uncond
    step,               \* self.sampler.step
    kdiff_step,         \* self.kdiff_step
    kdiff_step_bbox,    \* self.kdiff_step_bbox
    a,                  \* self.a
    tensor,             \* self.tensor
    uncond,             \* self.uncond
    all_pos_cond,       \* self.all_pos_cond (its shape)
    all_neg_cond,       \* self.all_neg_cond (its shape)
    real_tensor,        \* self.real_tensor (its shape)
    real_uncond,        \* self.real_uncond (its shape)
    req,                \* the arguments of the call in progress
    calls,              \* the forward_func calls the most recent call made
    x_out,              \* the tensor the most recent call returned
    history,            \* per region, the calls of the current sampler step
    \* update_pbar
    step_count,         \* self.step_count
    inner_loop_count,   \* self.inner_loop_count
    sampling_step,      \* state.sampling_step
    units,              \* the units of work completed so far (history)
    \* ControlNet hints
    controlnet_script,  \* self.controlnet_script and its latest_network
    control_params,     \* self.control_params: None or the network's parameter list
    control_tensor_batch,       \* self.control_tensor_batch
    org_control_tensor_batch,   \* self.org_control_tensor_batch
    control_tensor_custom,      \* self.control_tensor_custom
    hint_cond           \* the live hint_cond of each control parameter of the network

ctor_vars == <<is_kdiff, w, h, tile_w, tile_h, weights, batched_bboxes, num_batches,
               tile_batch_size>>
region_vars == <<custom_bboxes, draw_background, pbar, total_bboxes>>
\* the dispatch state but for kdiff_step, which the constructor sets
dispatch_vars == <<is_edit_model, batch_cond_uncond, step, kdiff_step_bbox, a,
                   tensor, uncond, all_pos_cond, all_neg_cond, real_tensor,
                   real_uncond, req, x_out, history>>
kdiff_vars == <<kdiff_step, dispatch_vars>>
progress_vars == <<step_count, inner_loop_count, sampling_step, units>>
control_vars == <<controlnet_script, control_params, control_tensor_batch,
                  org_control_tensor_batch, control_tensor_custom, hint_cond>>
\* what lives outside the coordinator and the constructor does not touch
env_vars == <<sampling_step, units, hint_cond>>
vars == <<pc, last_call, error, ctor_vars, region_vars, kdiff_vars, calls,
          progress_vars, control_vars>>

(***************************************************************************)
(* Bounds of the model.                                                    *)
(***************************************************************************)
\* canvas widths are 1..MaxSmallW and the one wide canvas WideW (latent cells)
MaxSmallW == 4
WideW == 68
\* canvas heights are 1..MaxH
MaxH == 2
\* requested tile sizes are 1..MaxTile, requested overlaps -1..MaxOverlap
MaxTile == 5
MaxOverlap == 5
\* requested tile batch sizes are 1..MaxBatch
MaxBatch == 3
\* a region configuration holds 1..MaxTuples tuples
MaxTuples == 2
\* state.sampling_steps is in 1..MaxSamplingSteps
MaxSamplingSteps == 1

Widths == (1..MaxSmallW) \cup {WideW}
Heights == 1..MaxH
TileSizes == 1..MaxTile
Overlaps == (-1)..MaxOverlap
BatchSizes == 1..MaxBatch

None == "None"

\* an attribute that is None (or not yet set) or holds a value v
Unset == <<>>
Some(v) == <<v>>

(***************************************************************************)
(* Python arithmetic.                                                      *)
(***************************************************************************)
Min(p, q) == IF p <= q THEN p ELSE q
Max(p, q) == IF p >= q THEN p ELSE q

\* math.ceil(n / d) for integers n >= 0, d >= 1.  The float quotient of two
\* small integers is an integer exactly when the true quotient is, and is
\* otherwise at least 1/d away from any integer, so the ceiling is exact.
CeilDiv(n, d) == (n + d - 1) \div d

RECURSIVE Log2Floor(_)
Log2Floor(n) == IF n < 2 THEN 0 ELSE 1 + Log2Floor(n \div 2)

(***************************************************************************)
(* IEEE-754 binary64, as Python floats are.  A float f with 1 <= f < 2^13  *)
(* (or f = 0) is kept as [int, frac]: its integer part and its fraction as *)
(* five digits of DigitBits bits each, most significant first.  A          *)
(* significand has MantissaBits bits after its leading one, so a float     *)
(* with integer part in [2^e, 2^(e+1)) has MantissaBits - e fraction bits: *)
(* digits 1..3, and all but the last e bits of digit 4.  Rounding is to    *)
(* nearest, ties to even.                                                  *)
(***************************************************************************)
MantissaBits == 52
DigitBits == 13
Base == 8192

RECURSIVE Pow2(_)
Pow2(n) == IF n = 0 THEN 1 ELSE 2 * Pow2(n - 1)

FloatZero == [int |-> 0, frac |-> <<0, 0, 0, 0, 0>>]

\* round the exact value int + 0.d1d2d3d4d5 (+ something below the last digit
\* when sticky) to a binary64
RoundFloat(int, d, sticky) ==
    LET \* the weight, within digit 4, of the last fraction bit that is kept
        u == Pow2(Log2Floor(int) + 4 * DigitBits - MantissaBits)
        low == (d[4] % u) * Base + d[5]
        half == (u * Base) \div 2
        lastBit == (d[4] \div u) % 2
        up == low > half \/ (low = half /\ (sticky \/ lastBit = 1))
        k4 == d[4] - (d[4] % u)
        t4 == k4 + u
        t3 == d[3] + (t4 \div Base)
        t2 == d[2] + (t3 \div Base)
        t1 == d[1] + (t2 \div Base)
    IN  IF up
        THEN [int |-> int + (t1 \div Base),
              frac |-> <<t1 % Base, t2 % Base, t3 % Base, t4 % Base, 0>>]
        ELSE [int |-> int, frac |-> <<d[1], d[2], d[3], k4, 0>>]

\* the float n / m for integers n >= m >= 1, or n = 0
FloatDiv(n, m) ==
    IF n = 0 THEN FloatZero
    ELSE LET r0 == n % m
             r1 == (r0 * Base) % m
             r2 == (r1 * Base) % m
             r3 == (r2 * Base) % m
             r4 == (r3 * Base) % m
             r5 == (r4 * Base) % m
             d == << (r0 * Base) \div m, (r1 * Base) \div m, (r2 * Base) \div m,
                     (r3 * Base) \div m, (r4 * Base) \div m >>
         IN  RoundFloat(n \div m, d, r5 # 0)

\* the float k * f for an integer k >= 0
FloatMul(k, f) ==
    IF k = 0 \/ f = FloatZero THEN FloatZero
    ELSE LET v5 == k * f.frac[5]
             v4 == k * f.frac[4] + (v5 \div Base)
             v3 == k * f.frac[3] + (v4 \div Base)
             v2 == k * f.frac[2] + (v3 \div Base)
             v1 == k * f.frac[1] + (v2 \div Base)
             d == <<v1 % Base, v2 % Base, v3 % Base, v4 % Base, v5 % Base>>
         IN  RoundFloat(k * f.int + (v1 \div Base), d, FALSE)

\* int(f): truncation
FloatToInt(f) == f.int

(***************************************************************************)
(* BBox and the tile geometry.                                             *)
(***************************************************************************)
BBox(x, y, bw, bh) == [x |-> x, y |-> y, w |-> bw, h |-> bh]

\* bbox.slice: the cells <<y, x>> of the bbox
Slice(bbox) == (bbox.y .. (bbox.y + bbox.h - 1)) \X (bbox.x .. (bbox.x + bbox.w - 1))

\* the weight one tile adds to each of its cells (the abstract
\* get_global_weights, here the uniform kernel)
get_global_weights == 1

\* x = int(col * dx); if x + tile_w >= w: x = w - tile_w
TileOffset(i, n, size, tile) ==
    LET dx == IF n > 1 THEN FloatDiv(size - tile, n - 1) ELSE FloatZero
        x == FloatToInt(FloatMul(i, dx))
    IN  IF x + tile >= size THEN size - tile ELSE x

\* the offsets of the n columns (rows), as a tuple
TileOffsets(n, size, tile) ==
    [i \in 1..n |-> TileOffset(i - 1, n, size, tile)] \o <<>>

\* count[bbox.slice] += self.get_global_weights(), for every tile of the grid
\* with column offsets xs and row offsets ys
GridWeights(sw, sh, tw, th, xs, ys) ==
    LET \* the number of tile rows over cell row i - 1, of tile columns over cell column i - 1
        inRows == [i \in 1..sh |->
                      Cardinality({r \in DOMAIN ys : ys[r] <= i - 1 /\ i - 1 < ys[r] + th})] \o <<>>
        inCols == [i \in 1..sw |->
                      Cardinality({c \in DOMAIN xs : xs[c] <= i - 1 /\ i - 1 < xs[c] + tw})] \o <<>>
    IN  [cell \in (0..(sh - 1)) \X (0..(sw - 1)) |->
            get_global_weights * inRows[cell[1] + 1] * inCols[cell[2] + 1]]

split_views(sw, sh, tw, th, overlap) ==
    LET non_overlap_width == tw - overlap
        non_overlap_height == th - overlap
        cols == CeilDiv(sw - overlap, non_overlap_width)
        rows == CeilDiv(sh - overlap, non_overlap_height)
        xs == TileOffsets(cols, sw, tw)
        ys == TileOffsets(rows, sh, th)
    IN  [bbox_list |-> [i \in 1..(rows * cols) |->
                           BBox(xs[((i - 1) % cols) + 1], ys[((i - 1) \div cols) + 1], tw, th)],
         count |-> GridWeights(sw, sh, tw, th, xs, ys)]

\* if overlap >= min_tile_size: overlap = min_tile_size - 4; if overlap < 0: overlap = 0
ClampOverlap(overlap, min_tile_size) ==
    LET o1 == IF overlap >= min_tile_size THEN min_tile_size - 4 ELSE overlap
    IN  IF o1 < 0 THEN 0 ELSE o1

\* bboxes[start:end]
PySlice(seq, start, end) == SubSeq(seq, start + 1, Min(end, Len(seq)))

\* BatchSlices without the last, partial batch
BatchSlices_DropPartial(bboxes, nb, bs) ==
    [i \in 1..nb |-> IF i * bs <= Len(bboxes)
                     THEN PySlice(bboxes, (i - 1) * bs, i * bs) ELSE <<>>]

\* the batches of the constructor's loop over range(num_batches)
BatchSlices(bboxes, nb, bs) ==
    [i \in 1..nb |-> PySlice(bboxes, (i - 1) * bs, Min(i * bs, Len(bboxes)))]

\* the concatenation of the sequences of seqs, in order (by halves, so that
\* the recursion stays shallow on long lists of batches)
RECURSIVE Flatten(_)
Flatten(seqs) ==
    IF Len(seqs) = 0 THEN <<>>
    ELSE IF Len(seqs) = 1 THEN seqs[1]
    ELSE LET half == Len(seqs) \div 2
         IN  Flatten(SubSeq(seqs, 1, half)) \o Flatten(SubSeq(seqs, half + 1, Len(seqs)))

(***************************************************************************)
(* TiledDiffusion.__init__                                                 *)
(***************************************************************************)
\* the controlnet_script argument: whether a script is given, whether it has
\* a latest_network, whether that network has control_params, and the shape
\* of each parameter's hint (3 dimensions, or 4 with a number of images)
Script(script, network, has_params, params) ==
    [script |-> script, network |-> network, has_params |-> has_params,
     params |-> params]

\* controlnet_script=None
NoScript == Script(FALSE, FALSE, FALSE, <<>>)

ConstructWith(script, kd, cw, ch, tw0, th0, overlap0, bs0) ==
    LET tw == IF tw0 > cw THEN cw ELSE tw0
        th == IF th0 > ch THEN ch ELSE th0
        overlap == ClampOverlap(overlap0, Min(tw, th))
        sv == split_views(cw, ch, tw, th, overlap)
        nb == CeilDiv(Len(sv.bbox_list), bs0)
    IN  /\ is_kdiff' = kd
        /\ w' = cw
        /\ h' = ch
        /\ tile_w' = tw
        /\ tile_h' = th
        /\ weights' = sv.count
        /\ num_batches' = nb
        /\ tile_batch_size' = CeilDiv(Len(sv.bbox_list), nb)
        /\ batched_bboxes' = BatchSlices(sv.bbox_list, nb, bs0)
        /\ custom_bboxes' = <<>>
        /\ draw_background' = TRUE
        /\ pbar' = Unset
        /\ kdiff_step' = -1
        /\ total_bboxes' = None
        /\ step_count' = 0
        /\ inner_loop_count' = 0
        /\ controlnet_script' = script
        /\ control_params' = Unset
        /\ control_tensor_batch' = Unset
        /\ org_control_tensor_batch' = Unset
        /\ control_tensor_custom' = <<>>
        /\ last_call' = [name |-> "__init__", tile_w |-> tw0, tile_h |-> th0,
                         overlap |-> overlap0, tile_batch_size |-> bs0]

\* the constructor without a ControlNet script (controlnet_script=None)
Construct(kd, cw, ch, tw0, th0, overlap0, bs0) ==
    ConstructWith(NoScript, kd, cw, ch, tw0, th0, overlap0, bs0)

New ==
    /\ pc = "new"
    /\ \E kd \in BOOLEAN, cw \in Widths, ch \in Heights, tw0 \in TileSizes,
          th0 \in TileSizes, overlap0 \in Overlaps, bs0 \in BatchSizes :
            Construct(kd, cw, ch, tw0, th0, overlap0, bs0)
    /\ pc' = "constructed"
    /\ UNCHANGED <<error, dispatch_vars, calls, env_vars>>

\* before construction no attribute exists
Blank ==
    /\ pc = "new"
    /\ last_call = None
    /\ error = None
    /\ is_kdiff = None
    /\ w = None /\ h = None /\ tile_w = None /\ tile_h = None
    /\ weights = None /\ batched_bboxes = None /\ num_batches = None
    /\ tile_batch_size = None
    /\ custom_bboxes = None /\ draw_background = None /\ pbar = Unset
    /\ total_bboxes = None
    /\ is_edit_model = Unset /\ batch_cond_uncond = None /\ step = None
    /\ kdiff_step = None /\ kdiff_step_bbox = None /\ a = None
    /\ tensor = None /\ uncond = None /\ req = None
    /\ all_pos_cond = None /\ all_neg_cond = None
    /\ real_tensor = None /\ real_uncond = None
    /\ calls = <<>> /\ x_out = None /\ history = None
    /\ step_count = None /\ inner_loop_count = None
    /\ sampling_step = None /\ units = None
    /\ controlnet_script = None /\ control_params = None
    /\ control_tensor_batch = None /\ org_control_tensor_batch = None
    /\ control_tensor_custom = None /\ hint_cond = None

InitTiles == Blank
NextTiles == New
SpecTiles == InitTiles /\ [][NextTiles]_vars

Tiles == Flatten(batched_bboxes)
Cells == (0..(h - 1)) \X (0..(w - 1))

\* C1: after the constructor, every latent cell of the canvas lies inside at
\* least one tile and has a weight > 0 (unit per-tile weight).
C1_EveryCellCovered ==
    pc = "constructed" =>
        \A cell \in Cells :
            /\ \E i \in DOMAIN Tiles : cell \in Slice(Tiles[i])
            /\ weights[cell] > 0

\* C3: the batches the constructor builds differ in size by at most 1.
C3_BatchSizesWithinOne ==
    pc = "constructed" =>
        \A i, j \in DOMAIN batched_bboxes :
            Len(batched_bboxes[i]) - Len(batched_bboxes[j]) <= 1

(***************************************************************************)
(* Region configuration: init_custom_bbox and init.                        *)
(*                                                                         *)
(* A canvas fraction is [num, den] with den a power of two, so that the    *)
(* float products x * self.w below are exact.                              *)
(***************************************************************************)
Frac(n, d) == [num |-> n, den |-> d]

\* int(f * size): truncation towards zero
IntOfProduct(f, size) ==
    IF f.num >= 0 THEN (f.num * size) \div f.den
                  ELSE -(((-f.num) * size) \div f.den)

\* math.ceil(f * size), for f > 0
CeilOfProduct(f, size) == CeilDiv(f.num * size, f.den)

\* max(min(feather_radio, 1), 0)
ClampRatio(f) ==
    IF f.num >= f.den THEN Frac(1, 1) ELSE IF f.num <= 0 THEN Frac(0, 1) ELSE f

\* range(start, stop, stride) as a sequence
PyRange(start, stop, stride) ==
    [j \in 1..(IF stop > start THEN CeilDiv(stop - start, stride) ELSE 0) |->
        start + (j - 1) * stride]

FieldsPerBBox == 9

\* not enable or x >= 1 or y >= 1 or w <= 0 or h <= 0
Skipped(t) ==
    \/ ~t[1]
    \/ t[2].num >= t[2].den
    \/ t[3].num >= t[3].den
    \/ t[4].num <= 0
    \/ t[5].num <= 0

\* a FeatherRadius that is always 0
FeatherRadius_Zero(bw, bh, ratio) == 0

\* line 65: int(min(w//2, h//2) * self.feather_ratio), the ratio in [0, 1]
FeatherRadius(bw, bh, ratio) == IntOfProduct(ratio, Min(bw \div 2, bh \div 2))

\* a guard that lets every cell of the loop through
Feathered_Always(dist, radius) == TRUE

\* line 72: the loop skips a cell with dist >= feather_radius
Feathered(dist, radius) == dist < radius

\* the loop index that writes the row or column k of the mask: k itself in
\* the first half, its mirror in the last half, and none (-1) for the middle
\* row or column of an odd size
LoopIndex(k, size) ==
    IF k < size \div 2 THEN k
    ELSE IF k >= size - size \div 2 THEN size - k - 1
    ELSE -1

\* line 73: (dist / feather_radius) ** 2, kept as the quotient of the squares
\* (the mask stores the float32 nearest to it); a denominator of 0 stands for
\* a division by zero
FeatherWeight(dist, radius) == Frac(dist * dist, radius * radius)

One == Frac(1, 1)

\* CustomBBox.generate_feather_mask: the mask as the loops leave it
generate_feather_mask(bw, bh, ratio) ==
    LET feather_radius == FeatherRadius(bw, bh, ratio)
    IN  [cell \in (0..(bh - 1)) \X (0..(bw - 1)) |->
            LET i == LoopIndex(cell[1], bh)
                j == LoopIndex(cell[2], bw)
                dist == Min(i, j)
            IN  IF i >= 0 /\ j >= 0 /\ Feathered(dist, feather_radius)
                THEN FeatherWeight(dist, feather_radius)
                ELSE One]

\* lines 46-47: only a foreground region has a feather mask
FeatherMaskOf(bw, bh, blend_mode, ratio) ==
    IF blend_mode = "Foreground" THEN generate_feather_mask(bw, bh, ratio) ELSE <<>>

\* CustomBBox without the clamp of the width and height to the canvas
CustomBBox_NoClamp(t, cw, ch) ==
    [x |-> Max(0, IntOfProduct(t[2], cw)), y |-> Max(0, IntOfProduct(t[3], ch)),
     w |-> CeilOfProduct(t[4], cw), h |-> CeilOfProduct(t[5], ch),
     prompt_cache |-> t[6], neg_prompt_cache |-> t[7],
     prompt |-> None, neg_prompt |-> None,
     blend_mode |-> t[8], feather_ratio |-> ClampRatio(t[9]),
     feather_mask |-> FeatherMaskOf(CeilOfProduct(t[4], cw), CeilOfProduct(t[5], ch),
                                    t[8], ClampRatio(t[9]))]

\* CustomBBox(x, y, w, h, p, neg, BlendMode(blend_mode), feather_ratio) after the clamps
CustomBBox(t, cw, ch) ==
    LET x == Max(0, IntOfProduct(t[2], cw))
        y == Max(0, IntOfProduct(t[3], ch))
        bw == Min(cw - x, CeilOfProduct(t[4], cw))
        bh == Min(ch - y, CeilOfProduct(t[5], ch))
    IN  [x |-> x, y |-> y, w |-> bw, h |-> bh,
         prompt_cache |-> t[6], neg_prompt_cache |-> t[7],
         prompt |-> None, neg_prompt |-> None,
         blend_mode |-> t[8], feather_ratio |-> ClampRatio(t[9]),
         feather_mask |-> FeatherMaskOf(bw, bh, t[8], ClampRatio(t[9]))]

\* the indices i of the loop of init_custom_bbox
LoopStarts(states) == PyRange(0, Len(states) - FieldsPerBBox, FieldsPerBBox)

\* the custom bboxes the loop of init_custom_bbox appends
CollectBBoxes(states, cw, ch) ==
    LET starts == LoopStarts(states)
        tuples == [j \in DOMAIN starts |->
                      SubSeq(states, starts[j] + 1, starts[j] + FieldsPerBBox)]
        Kept(t) == ~Skipped(t)
        kept == SelectSeq(tuples, Kept)
    IN  [j \in DOMAIN kept |-> CustomBBox(kept[j], cw, ch)]

init_custom_bbox(background, states) ==
    LET bboxes == CollectBBoxes(states, w, h)
    IN  /\ pc \in {"constructed", "ready"}
        /\ custom_bboxes' = bboxes
        /\ IF Len(bboxes) = 0
           THEN UNCHANGED <<draw_background, weights>>
           ELSE /\ draw_background' = background
                /\ weights' = IF background THEN weights
                              ELSE [cell \in DOMAIN weights |-> 0]
        /\ last_call' = [name |-> "init_custom_bbox", draw_background |-> background,
                         bbox_control_states |-> states]
        /\ error' = None
        /\ UNCHANGED <<pc, is_kdiff, w, h, tile_w, tile_h, batched_bboxes, num_batches,
                       tile_batch_size, pbar, total_bboxes, kdiff_vars, calls,
                       progress_vars, control_vars>>

(***************************************************************************)
(* ControlNet hints.  A tensor is its number of dimensions and its rows     *)
(* along the batch dimension (one row for a 3-dimensional hint); a row is   *)
(* the parameter and image it comes from and the pixel box it was cropped   *)
(* to (Unset for the whole hint).  Moving a tensor between devices          *)
(* (.cpu(), .to(device)) does not change it.                                *)
(***************************************************************************)
\* param.hint_cond of parameter p before any switch: dims dimensions, images rows
Hint(p, dims, images) ==
    [dims |-> dims,
     rows |-> [k \in 1..images |-> [param |-> p, image |-> k, box |-> Unset]]]

\* bbox[0]*8, bbox[1]*8, bbox[2]*8, bbox[3]*8 with bbox.box = [x, y, x+w, y+h]
PixelBox(bbox) ==
    <<bbox.x * 8, bbox.y * 8, (bbox.x + bbox.w) * 8, (bbox.y + bbox.h) * 8>>

\* control_tensor[:, y0:y1, x0:x1].unsqueeze(0) for a 3-dimensional hint,
\* control_tensor[:, :, y0:y1, x0:x1] for a 4-dimensional one
CropHint(t, bbox) ==
    [dims |-> 4,
     rows |-> [k \in DOMAIN t.rows |-> [t.rows[k] EXCEPT !.box = Some(PixelBox(bbox))]]]

\* torch.cat(ts, dim=0)
Cat(ts) == [dims |-> 4, rows |-> Flatten([i \in DOMAIN ts |-> ts[i].rows])]

\* t.repeat([n, 1, 1, 1])
Repeat(t, n) == [dims |-> 4, rows |-> Flatten([i \in 1..n |-> t.rows])]

\* prepare_control_tensors: crop the hints into tiles and regions and cache them
prepare_control_tensors ==
    IF control_tensor_batch # Unset
    THEN UNCHANGED <<control_params, org_control_tensor_batch,
                     control_tensor_batch, control_tensor_custom>>
    ELSE IF ~controlnet_script.script \/ control_params # Unset
    THEN UNCHANGED <<control_params, org_control_tensor_batch,
                     control_tensor_batch, control_tensor_custom>>
    ELSE IF ~controlnet_script.network \/ ~controlnet_script.has_params
    THEN UNCHANGED <<control_params, org_control_tensor_batch,
                     control_tensor_batch, control_tensor_custom>>
    ELSE LET tensors == hint_cond
         IN  /\ control_params' = Some([i \in DOMAIN hint_cond |-> i])
             /\ org_control_tensor_batch' = Some(tensors)
             /\ IF Len(tensors) = 0
                THEN UNCHANGED <<control_tensor_batch, control_tensor_custom>>
                ELSE /\ control_tensor_batch' =
                            Some([i \in DOMAIN tensors |->
                                    [b \in DOMAIN batched_bboxes |->
                                        Cat([j \in DOMAIN batched_bboxes[b] |->
                                                CropHint(tensors[i], batched_bboxes[b][j])])]])
                     /\ control_tensor_custom' =
                            IF Len(custom_bboxes) > 0
                            THEN control_tensor_custom \o
                                 [i \in DOMAIN tensors |->
                                    [r \in DOMAIN custom_bboxes |->
                                        CropHint(tensors[i], custom_bboxes[r])]]
                            ELSE control_tensor_custom

\* the tile read from the cache instead of which a switch would read the
\* live hint (a switch that is not idempotent)
CachedTile_Live(param_id, batch_id) == hint_cond[param_id + 1]

\* self.control_tensor_batch[param_id][batch_id]
CachedTile(param_id, batch_id) == control_tensor_batch[1][param_id + 1][batch_id + 1]

\* lines 434-441: the tile of one parameter as switch_controlnet_tensors writes it
SwitchedTile(param_id, batch_id, x_batch_size, n_tiles, is_denoise) ==
    LET control_tile == CachedTile(param_id, batch_id)
    IN  IF is_kdiff
        THEN Cat([i \in 1..n_tiles |->
                    Cat([k \in 1..x_batch_size |->
                            [dims |-> 4, rows |-> <<control_tile.rows[i]>>]])])
        ELSE Repeat(control_tile, IF is_denoise THEN x_batch_size ELSE x_batch_size * 2)

\* the live hints after switch_controlnet_tensors
SwitchedHints(batch_id, x_batch_size, n_tiles, is_denoise) ==
    IF control_tensor_batch # Unset
    THEN [i \in DOMAIN control_params[1] |->
            SwitchedTile(i - 1, batch_id, x_batch_size, n_tiles, is_denoise)]
    ELSE hint_cond

\* the live hints after set_control_tensor
SetHints(bbox_id, repeat_size) ==
    IF Len(control_tensor_custom) > 0
    THEN [i \in DOMAIN control_params[1] |->
            Repeat(control_tensor_custom[i][bbox_id + 1], repeat_size)]
    ELSE hint_cond

\* a reset that leaves the live hint of a parameter as it is
OriginalHint_Live(param_id) == hint_cond[param_id + 1]

\* self.org_control_tensor_batch[param_id]
OriginalHint(param_id) == org_control_tensor_batch[1][param_id + 1]

\* the live hints after reset_controlnet_tensors
ResetHints ==
    IF control_tensor_batch # Unset
    THEN [i \in DOMAIN control_params[1] |-> OriginalHint(i - 1)]
    ELSE hint_cond

NoRegionError == "No region to sample! no background to draw and no custom bboxes were provided."

\* init(x_in): the edit-model flag, the progress bar and the assertion
init(edit, sampling_steps) ==
    LET total == (IF draw_background THEN num_batches ELSE 0) + Len(custom_bboxes)
    IN  /\ pc \in {"constructed", "ready"}
        /\ is_edit_model' = IF is_kdiff /\ is_edit_model = Unset THEN Some(edit)
                            ELSE is_edit_model
        /\ IF pbar = Unset
           THEN /\ total_bboxes' = total
                /\ IF total > 0
                   THEN /\ pbar' = Some([n |-> 0, total |-> total * sampling_steps])
                        /\ error' = None
                        /\ pc' = "ready"
                        /\ prepare_control_tensors
                   ELSE /\ error' = NoRegionError
                        /\ UNCHANGED <<pbar, pc, control_params,
                                       org_control_tensor_batch,
                                       control_tensor_batch, control_tensor_custom>>
           ELSE /\ error' = None
                /\ pc' = "ready"
                /\ prepare_control_tensors
                /\ UNCHANGED <<pbar, total_bboxes>>
        /\ last_call' = [name |-> "init",
                         after |-> [name |-> last_call.name,
                                    draw_background |->
                                        IF last_call.name = "init_custom_bbox"
                                        THEN last_call.draw_background ELSE None]]
        /\ UNCHANGED <<ctor_vars, custom_bboxes, draw_background, batch_cond_uncond,
                       step, kdiff_step, kdiff_step_bbox, a, tensor, uncond,
                       all_pos_cond, all_neg_cond, real_tensor, real_uncond,
                       req, x_out, history, calls, progress_vars,
                       controlnet_script, hint_cond>>

\* the region tuples the model feeds to init_custom_bbox: one inside the
\* canvas, one that starts left of it and overhangs its bottom, one disabled,
\* one degenerate in its position and one degenerate in its size
RegionTuples ==
    { <<TRUE,  Frac(1, 4),  Frac(1, 4), Frac(1, 2),  Frac(1, 2),  "p1", "n1", "Background", Frac(0, 1)>>,
      <<TRUE,  Frac(-1, 4), Frac(3, 4), Frac(1, 2),  Frac(1, 2),  "p2", "",   "Foreground", Frac(2, 1)>>,
      <<FALSE, Frac(1, 4),  Frac(1, 4), Frac(1, 2),  Frac(1, 2),  "p3", "n3", "Background", Frac(0, 1)>>,
      <<TRUE,  Frac(1, 1),  Frac(0, 1), Frac(1, 2),  Frac(1, 2),  "p4", "n4", "Background", Frac(0, 1)>>,
      <<TRUE,  Frac(0, 1),  Frac(0, 1), Frac(1, 2),  Frac(-1, 4), "p5", "n5", "Background", Frac(0, 1)>> }

\* the flat sequences of 1..MaxTuples nine-field tuples
TupleSeqs == UNION {[1..k -> RegionTuples] : k \in 1..MaxTuples}

NewSmall ==
    /\ pc = "new"
    /\ \E cw \in {1, MaxSmallW}, tw0 \in {1, MaxTile} :
            Construct(FALSE, cw, MaxH, tw0, tw0, 0, 1)
    /\ pc' = "constructed"
    /\ UNCHANGED <<error, dispatch_vars, calls, env_vars>>

InitCustomBBox ==
    \E background \in BOOLEAN, ts \in TupleSeqs : init_custom_bbox(background, Flatten(ts))

InitCall ==
    \E edit \in BOOLEAN, sampling_steps \in 1..MaxSamplingSteps : init(edit, sampling_steps)

InitRegions == Blank
NextRegions == NewSmall \/ InitCustomBBox \/ InitCall
SpecRegions == InitRegions /\ [][NextRegions]_vars

\* the tuples of a flat region configuration, in input order
TuplesOf(states) ==
    [j \in 1..(Len(states) \div FieldsPerBBox) |->
        SubSeq(states, (j - 1) * FieldsPerBBox + 1, j * FieldsPerBBox)]

\* C9: init_custom_bbox yields exactly one region for each enabled,
\* non-degenerate tuple of its input, in input order, and none for any other.
C9_OneRegionPerKeptTuple ==
    (pc # "new" /\ last_call.name = "init_custom_bbox") =>
        LET Wanted(t) == t[1] /\ t[2].num < t[2].den /\ t[3].num < t[3].den
                         /\ t[4].num > 0 /\ t[5].num > 0
            wanted == SelectSeq(TuplesOf(last_call.bbox_control_states), Wanted)
        IN  /\ Len(custom_bboxes) = Len(wanted)
            /\ \A j \in DOMAIN wanted :
                   custom_bboxes[j].prompt_cache = wanted[j][6]

\* C10: zero regions with background drawing requested off makes the
\* following init() fail with the 'No region to sample' error.
C10_NoRegionIsFatal ==
    (/\ pc # "new"
     /\ last_call.name = "init"
     /\ last_call.after.name = "init_custom_bbox"
     /\ ~last_call.after.draw_background
     /\ Len(custom_bboxes) = 0)
        => error = NoRegionError

(***************************************************************************)
(* K-diffusion dispatch: hook, refresh_prompt, kdiff_custom_forward.       *)
(* A conditioning tensor is its rows (dimension 0) and its token length    *)
(* (dimension 1); a row is named by its kind, its region and its index.    *)
(***************************************************************************)
MaxCond == 1             \* conditional entries of a region
MaxUncond == 2           \* unconditional entries (the batch size)
MaxChunks == 2           \* a negative conditioning is 1 or MaxChunks tokens long
MaxRows == 3             \* rows of an x_tile
MaxStep == 1             \* last sampler step
MaxCursor == 3           \* rows a region is asked for within one step

CondTensor(kind, id, n, len) ==
    [rows |-> [i \in 1..n |-> <<kind, id, i>>], len |-> len]

\* the rows 0..n-1 of an x_tile
XRows(n) == [i \in 1..n |-> i - 1]

\* the result row the callback's call number c computes for x_tile row i
Out(c, i) == <<"out", c, i>>
Zero == <<"zero">>

EmptyDict == <<>>

\* a store that drops the entries of the other keys
Store_Alone(dict, key, value) == (key :> value)

\* self.tensor[bbox_id] = tensor: the dict with one entry set
Store(dict, key, value) == (key :> value) @@ dict

hook ==
    /\ pc = "ready"
    /\ pc' = "hooked"
    /\ step' = 0
    /\ batch_cond_uncond' \in BOOLEAN
    /\ last_call' = [name |-> "hook"]
    /\ hint_cond' = ResetHints
    /\ UNCHANGED <<error, ctor_vars, region_vars, kdiff_step, is_edit_model,
                   kdiff_step_bbox, a, tensor, uncond, all_pos_cond, all_neg_cond,
                   real_tensor, real_uncond, req, x_out, history, calls,
                   progress_vars, controlnet_script, control_params,
                   control_tensor_batch, org_control_tensor_batch,
                   control_tensor_custom>>

\* CustomBBox.prepare_prompt: ks is the number of sub-prompts of the prompts
\* with the region's text appended, m the number of negative prompts, len the
\* token length the region's negative text gives
prepare_prompt(bbox, id, ks, m, len) ==
    [bbox EXCEPT !.prompt = CondTensor("cond", id, ks, 1),
                 !.neg_prompt = CondTensor("uncond", id, m, len)]

refresh_prompt(ks, m, lens, glen) ==
    /\ pc = "hooked"
    /\ pc' = "idle"
    /\ custom_bboxes' = [i \in DOMAIN custom_bboxes |->
                            prepare_prompt(custom_bboxes[i], i - 1, ks[i], m, lens[i])]
    /\ all_pos_cond' = [n |-> m, len |-> 1]
    /\ all_neg_cond' = [n |-> m, len |-> glen]
    /\ history' = [i \in DOMAIN custom_bboxes |-> [rows |-> {}, handed |-> <<>>]]
    /\ last_call' = [name |-> "refresh_prompt"]
    /\ UNCHANGED <<error, ctor_vars, draw_background, pbar, total_bboxes, kdiff_step,
                   is_edit_model, batch_cond_uncond, step, kdiff_step_bbox, a, tensor,
                   uncond, real_tensor, real_uncond, req, x_out, calls,
                   progress_vars, control_vars>>

\* a reset that leaves the cursors of the previous step in place
ResetCursors_Keep(n) == [i \in 1..n |-> IF kdiff_step = -1 THEN 0 ELSE a[i]]

\* lines 269-279: the reset a call makes when the sampler step has changed
ResetCursors(n) == [i \in 1..n |-> 0]
ResetMarkers(n) == [i \in 1..n |-> -1]

\* lines 256-279: entry of kdiff_custom_forward, up to the point where the
\* conditioning of the call is selected
kdiff_enter(bbox_id, nrows) ==
    /\ pc = "idle"
    /\ (IF kdiff_step = step THEN a[bbox_id + 1] ELSE 0) + nrows <= MaxCursor
    /\ pc' = "select"
    /\ req' = [bbox_id |-> bbox_id, rows |-> nrows, step_changed |-> kdiff_step # step,
               first |-> history[bbox_id + 1].rows = {}]
    /\ IF kdiff_step # step
       THEN /\ kdiff_step' = step
            /\ kdiff_step_bbox' = ResetMarkers(Len(custom_bboxes))
            /\ tensor' = EmptyDict
            /\ uncond' = EmptyDict
            /\ real_tensor' = all_pos_cond
            /\ real_uncond' = all_neg_cond
            /\ a' = ResetCursors(Len(custom_bboxes))
       ELSE UNCHANGED <<kdiff_step, kdiff_step_bbox, tensor, uncond, real_tensor,
                        real_uncond, a>>
    /\ calls' = <<>>
    /\ x_out' = <<>>
    /\ error' = None
    /\ last_call' = [name |-> "kdiff_custom_forward"]
    /\ UNCHANGED <<ctor_vars, region_vars, is_edit_model, batch_cond_uncond, step,
                   all_pos_cond, all_neg_cond, history, progress_vars, control_vars>>

\* a callback call: the x_tile rows and the cond dict it is handed
Call(xrows, crossattn, concat) ==
    [x |-> xrows, c_crossattn |-> crossattn, c_concat |-> concat]

\* FusedCond without the second unconditional copy of an edit model
FusedCond_NoDuplicate(t, u, edit) == t.rows \o u.rows

\* lines 291-294: the cross-attention tensor of the single fused call
FusedCond(t, u, edit) ==
    IF ~edit THEN t.rows \o u.rows ELSE t.rows \o u.rows \o u.rows

\* lines 295-296: one call on the whole x_tile; its result is returned
FusedForward(t, u, edit, nrows) ==
    [calls |-> <<Call(XRows(nrows), <<FusedCond(t, u, edit)>>, <<XRows(nrows)>>)>>,
     x_out |-> [i \in 1..nrows |-> Out(1, i - 1)],
     error |-> None]

\* SplitCalls with the unconditional slice taken from row 0
SplitCalls_FromZero(t, u, nrows) ==
    << Call(PySlice(XRows(nrows), 0, Len(t.rows)), <<t.rows>>,
            <<PySlice(XRows(nrows), 0, Len(t.rows))>>),
       Call(PySlice(XRows(nrows), 0, Len(u.rows)), <<u.rows>>,
            <<PySlice(XRows(nrows), 0, Len(u.rows))>>) >>

\* lines 301-316: the conditional and the unconditional call
SplitCalls(t, u, nrows) ==
    LET cond_size == Len(t.rows)
        uncond_size == Len(u.rows)
    IN  << Call(PySlice(XRows(nrows), 0, cond_size), <<t.rows>>,
                <<PySlice(XRows(nrows), 0, cond_size)>>),
           Call(PySlice(XRows(nrows), cond_size, cond_size + uncond_size), <<u.rows>>,
                <<PySlice(XRows(nrows), cond_size, cond_size + uncond_size)>>) >>

\* lines 298, 317-321: x_out starts as zeros, takes the results of the two
\* calls at their row offsets and, for an edit model, a copy of the
\* unconditional result in the rows from cond_size + uncond_size on.  The
\* copy broadcasts a one-row result and otherwise needs as many rows as it
\* fills.
SplitForward(t, u, edit, nrows) ==
    LET cond_size == Len(t.rows)
        uncond_size == Len(u.rows)
        cs == SplitCalls(t, u, nrows)
        n1 == Len(cs[1].x)
        n2 == Len(cs[2].x)
        rest == Max(0, nrows - (cond_size + uncond_size))
        Row(i) ==
            IF i < n1 THEN Out(1, cs[1].x[i + 1])
            ELSE IF i < cond_size + n2 THEN Out(2, cs[2].x[i - cond_size + 1])
            ELSE IF ~edit THEN Zero
            ELSE IF n2 = 1 THEN Out(2, cs[2].x[1])
            ELSE Out(2, cs[2].x[i - (cond_size + uncond_size) + 1])
    IN  IF edit /\ n2 # 1 /\ n2 # rest
        THEN [calls |-> cs, x_out |-> <<>>, error |-> "RuntimeError"]
        ELSE [calls |-> cs, x_out |-> [i \in 1..nrows |-> Row(i - 1)], error |-> None]

\* lines 339-362: one replay call at cursor a0 on the whole x_tile.  For an
\* edit model torch.cat receives the unconditional tensor as its dimension
\* and raises before the callback is reached.
ReplayForward(t, u, edit, a0, nrows) ==
    IF a0 < Len(t.rows)
    THEN IF ~edit
         THEN [calls |-> <<Call(XRows(nrows), <<PySlice(t.rows, a0, a0 + nrows)>>,
                                <<XRows(nrows)>>)>>,
               x_out |-> [i \in 1..nrows |-> Out(1, i - 1)],
               error |-> None]
         ELSE [calls |-> <<>>, x_out |-> <<>>, error |-> "TypeError"]
    ELSE [calls |-> <<Call(XRows(nrows), <<u.rows>>, <<XRows(nrows)>>)>>,
          x_out |-> [i \in 1..nrows |-> Out(1, i - 1)],
          error |-> None]

\* every conditioning row the calls hand to the callback, in order
Handed(cs) == Flatten([i \in DOMAIN cs |-> Flatten(cs[i].c_crossattn)])

\* lines 281-362: the rest of kdiff_custom_forward
kdiff_dispatch ==
    /\ pc = "select"
    /\ pc' = "idle"
    /\ LET bbox_id == req.bbox_id
           nrows == req.rows
           edit == is_edit_model[1]
           bbox == custom_bboxes[bbox_id + 1]
           first == kdiff_step_bbox[bbox_id + 1] # step
           t == bbox.prompt
           u == bbox.neg_prompt
           equal == real_tensor.len = real_uncond.len
           fused == t.len = u.len /\ batch_cond_uncond
           tensor1 == IF first THEN Store(tensor, bbox_id, t) ELSE tensor
           uncond1 == IF first THEN Store(uncond, bbox_id, u) ELSE uncond
           a0 == a[bbox_id + 1]
           res == IF first /\ equal
                  THEN [path |-> IF fused THEN "fused" ELSE "split", offset |-> 0] @@
                       (IF fused THEN FusedForward(t, u, edit, nrows)
                        ELSE SplitForward(t, u, edit, nrows))
                  ELSE IF bbox_id \notin DOMAIN tensor1
                  THEN [path |-> "replay", offset |-> a0, calls |-> <<>>,
                        x_out |-> <<>>, error |-> "KeyError"]
                  ELSE [path |-> "replay", offset |-> a0] @@
                       ReplayForward(tensor1[bbox_id], uncond1[bbox_id], edit, a0, nrows)
           \* the repeat size of the last set_control_tensor before the
           \* function returns or raises, if it reaches one
           repeat == IF res.error \in {"KeyError", "TypeError"} THEN Unset
                     ELSE IF first /\ equal
                     THEN IF fused THEN Some(nrows) ELSE Some(Len(u.rows))
                     ELSE IF a0 < Len(tensor1[bbox_id].rows) THEN Some(nrows)
                     ELSE Some(Len(uncond1[bbox_id].rows))
       IN  /\ kdiff_step_bbox' = [kdiff_step_bbox EXCEPT ![bbox_id + 1] = step]
           /\ IF first /\ equal
              THEN UNCHANGED <<tensor, uncond, a>>
              ELSE /\ tensor' = tensor1
                   /\ uncond' = uncond1
                   /\ a' = IF bbox_id \in DOMAIN tensor1
                           THEN [a EXCEPT ![bbox_id + 1] = a0 + nrows]
                           ELSE a
           /\ calls' = res.calls
           /\ x_out' = res.x_out
           /\ error' = res.error
           /\ last_call' = [name |-> "kdiff_custom_forward", path |-> res.path,
                            offset |-> res.offset]
           /\ history' = [history EXCEPT ![bbox_id + 1] =
                             [rows |-> @.rows \cup {nrows},
                              handed |-> @.handed \o Handed(res.calls)]]
           /\ hint_cond' = IF repeat = Unset THEN hint_cond
                           ELSE SetHints(bbox_id, repeat[1])
    /\ UNCHANGED <<ctor_vars, region_vars, kdiff_step, is_edit_model, batch_cond_uncond,
                   step, all_pos_cond, all_neg_cond, real_tensor, real_uncond, req,
                   progress_vars, controlnet_script, control_params,
                   control_tensor_batch, org_control_tensor_batch,
                   control_tensor_custom>>

\* the sampler moves to its next step
next_step ==
    /\ pc = "idle"
    /\ step < MaxStep
    /\ step' = step + 1
    /\ history' = [i \in DOMAIN history |-> [rows |-> {}, handed |-> <<>>]]
    /\ UNCHANGED <<pc, last_call, error, ctor_vars, region_vars, kdiff_step,
                   is_edit_model, batch_cond_uncond, kdiff_step_bbox, a, tensor, uncond,
                   all_pos_cond, all_neg_cond, real_tensor, real_uncond, req, x_out,
                   calls, progress_vars, control_vars>>

\* the two regions of the dispatch model come from three tuples, the last of
\* which the loop of init_custom_bbox does not reach
KdiffTuple ==
    <<TRUE, Frac(0, 1), Frac(0, 1), Frac(1, 1), Frac(1, 1), "p", "n", "Background", Frac(0, 1)>>

NewKdiff ==
    /\ pc = "new"
    /\ Construct(TRUE, 1, 1, 1, 1, 0, 1)
    /\ pc' = "constructed"
    /\ UNCHANGED <<error, dispatch_vars, calls, env_vars>>

KdiffConfigure ==
    /\ pc = "constructed"
    /\ custom_bboxes = <<>>
    /\ init_custom_bbox(TRUE, Flatten(<<KdiffTuple, KdiffTuple, KdiffTuple>>))

KdiffInit ==
    /\ pc = "constructed"
    /\ Len(custom_bboxes) > 0
    /\ is_edit_model = Unset
    /\ \E edit \in BOOLEAN : init(edit, MaxSamplingSteps)

RefreshPrompt ==
    /\ pc = "hooked"
    /\ \E m \in 1..MaxUncond, glen \in {1, MaxChunks},
          ks \in [DOMAIN custom_bboxes -> 1..MaxCond],
          lens \in [DOMAIN custom_bboxes -> {1, MaxChunks}] :
        refresh_prompt(ks, m, lens, glen)

KdiffEnter ==
    /\ pc = "idle"
    /\ \E bbox_id \in 0..(Len(custom_bboxes) - 1), nrows \in 1..MaxRows :
        kdiff_enter(bbox_id, nrows)

InitKdiff == Blank
NextKdiff ==
    \/ NewKdiff
    \/ KdiffConfigure
    \/ KdiffInit
    \/ hook
    \/ RefreshPrompt
    \/ KdiffEnter
    \/ kdiff_dispatch
    \/ next_step
SpecKdiff == InitKdiff /\ [][NextKdiff]_vars

IsPrefix(p, q) == Len(p) <= Len(q) /\ p = SubSeq(q, 1, Len(p))

\* C2: with whole-canvas conditioning of unequal length and every call of the
\* step carrying the same number of items, the calls of a step hand the
\* callback a region's conditional entries in order, each once, and then its
\* unconditional entries, each once: what has been handed so far is a prefix
\* of cond followed by uncond, and once the cursor has passed the conditional
\* entries all of them have been handed.  Only calls that ask for no more
\* than the k + m items of the step are considered.
C2_EachEntryHandedOnce ==
    (pc = "idle" /\ kdiff_step = step /\ real_tensor.len # real_uncond.len) =>
        \A r \in DOMAIN history :
            LET asked == (r - 1) \in DOMAIN tensor
                cond_rows == tensor[r - 1].rows
                uncond_rows == uncond[r - 1].rows
                handed == history[r].handed
            IN  (/\ asked
                 /\ Cardinality(history[r].rows) <= 1
                 /\ a[r] <= Len(cond_rows) + Len(uncond_rows)) =>
                    /\ IsPrefix(handed, cond_rows \o uncond_rows)
                    /\ a[r] >= Len(cond_rows) => Len(handed) >= Len(cond_rows)

\* the request the last kdiff_custom_forward served was the first of its
\* sampler step for its region, with whole-canvas conditioning of equal length
FirstEqualRequest ==
    /\ pc = "idle"
    /\ last_call.name = "kdiff_custom_forward"
    /\ req.first
    /\ real_tensor.len = real_uncond.len

RegionOfRequest == custom_bboxes[req.bbox_id + 1]

RegionIsFusable ==
    RegionOfRequest.prompt.len = RegionOfRequest.neg_prompt.len /\ batch_cond_uncond

\* C4: on the first request of a step for a region, with whole-canvas and
\* region conditioning of equal length and cond/uncond batching enabled, the
\* callback is invoked exactly once, on the whole x_tile, with [cond, uncond]
\* for a non-edit model and [cond, uncond, uncond] for an edit model.
C4_OneFusedCall ==
    (FirstEqualRequest /\ RegionIsFusable) =>
        LET c == RegionOfRequest.prompt.rows
            u == RegionOfRequest.neg_prompt.rows
        IN  /\ error = None
            /\ Len(calls) = 1
            /\ calls[1].x = XRows(req.rows)
            /\ calls[1].c_crossattn =
                   <<IF is_edit_model[1] THEN c \o u \o u ELSE c \o u>>

C4_Witness ==
    /\ FirstEqualRequest /\ RegionIsFusable
    /\ is_edit_model[1]
    /\ Len(RegionOfRequest.prompt.rows) = MaxCond
    /\ Len(calls) = 1

\* the rows lo..hi-1 of an x_tile of n rows
RowsFrom(lo, hi, n) == [i \in 1..(Min(hi, n) - Min(lo, n)) |-> Min(lo, n) + i - 1]

\* the conditional call is over rows [0, cond_size) of x_tile and the
\* unconditional call over rows [cond_size, cond_size + uncond_size)
SlicedAsClaimed(k) ==
    LET cond_size == Len(RegionOfRequest.prompt.rows)
        uncond_size == Len(RegionOfRequest.neg_prompt.rows)
    IN  /\ Len(calls) >= k
        /\ calls[1].x = RowsFrom(0, cond_size, req.rows)
        /\ calls[1].c_crossattn = <<RegionOfRequest.prompt.rows>>
        /\ calls[2].x = RowsFrom(cond_size, cond_size + uncond_size, req.rows)
        /\ calls[2].c_crossattn = <<RegionOfRequest.neg_prompt.rows>>

\* each result is in the output at the row offsets of its slice
StitchedAsClaimed ==
    LET cond_size == Len(RegionOfRequest.prompt.rows)
        uncond_size == Len(RegionOfRequest.neg_prompt.rows)
    IN  /\ Len(x_out) = req.rows
        /\ \A i \in 0..(req.rows - 1) :
               /\ i < cond_size => x_out[i + 1] = Out(1, i)
               /\ (cond_size <= i /\ i < cond_size + uncond_size) =>
                      x_out[i + 1] = Out(2, i)

\* C5 as stated: on the first request of a step for a region, with
\* whole-canvas conditioning of equal length but region conditioning of
\* unequal length or batching disabled, exactly two callback calls are issued
\* for a non-edit model and exactly three for an edit model, over rows
\* [0, cond_size) and [cond_size, cond_size + uncond_size), each result
\* written at the same row offsets.
C5_TwoOrThreeCalls ==
    (FirstEqualRequest /\ ~RegionIsFusable) =>
        /\ Len(calls) = (IF is_edit_model[1] THEN 3 ELSE 2)
        /\ SlicedAsClaimed(2)
        /\ error = None => StitchedAsClaimed

\* C5 amended: in that case exactly two callback calls are issued for either
\* kind of model, over rows [0, cond_size) and [cond_size, cond_size +
\* uncond_size), each result written at the same row offsets; for an edit
\* model the rows from cond_size + uncond_size on receive a copy of the
\* unconditional result, with no third call, and the request fails after the
\* two calls exactly when that result has neither one row nor as many rows as
\* remain; for a non-edit model those rows stay zero.
C5_TwoCallsAndCopy ==
    (FirstEqualRequest /\ ~RegionIsFusable) =>
        LET cond_size == Len(RegionOfRequest.prompt.rows)
            uncond_size == Len(RegionOfRequest.neg_prompt.rows)
            n2 == Len(calls[2].x)
            rest == Max(0, req.rows - (cond_size + uncond_size))
        IN  /\ Len(calls) = 2
            /\ SlicedAsClaimed(2)
            /\ error # None <=> (is_edit_model[1] /\ n2 # 1 /\ n2 # rest)
            /\ error = None =>
                   /\ StitchedAsClaimed
                   /\ \A i \in (cond_size + uncond_size)..(req.rows - 1) :
                          x_out[i + 1] =
                              IF ~is_edit_model[1] THEN Zero
                              ELSE IF n2 = 1 THEN Out(2, cond_size)
                              ELSE Out(2, i - uncond_size)

C5_Witness ==
    /\ FirstEqualRequest /\ ~RegionIsFusable
    /\ is_edit_model[1]
    /\ error = None
    /\ Len(calls) = 2
    /\ req.rows > Len(RegionOfRequest.prompt.rows) + Len(RegionOfRequest.neg_prompt.rows)

\* C6: when a call arrives with a sampler step other than the one the
\* previous call saw, then before its conditioning is selected every region's
\* cursor is 0, every region's marker is cleared and the caches are empty; and
\* the first replay call of a step for a region starts at offset 0.
C6_StepChangeResets ==
    /\ (pc = "select" /\ req.step_changed) =>
           /\ \A r \in DOMAIN custom_bboxes : a[r] = 0 /\ kdiff_step_bbox[r] = -1
           /\ DOMAIN tensor = {}
           /\ DOMAIN uncond = {}
    /\ (pc = "idle" /\ last_call.name = "kdiff_custom_forward"
            /\ last_call.path = "replay" /\ req.first) =>
           last_call.offset = 0

C6_Witness ==
    /\ pc = "select"
    /\ req.step_changed
    /\ step = MaxStep
    /\ \A r \in DOMAIN custom_bboxes : a[r] = 0

(***************************************************************************)
(* DDIM/PLMS dispatch: ddim_custom_forward.  Here a conditioning tensor is *)
(* its rows, each the sequence of its token vectors.                       *)
(***************************************************************************)
MaxImages == 2           \* images of a request
MaxSubPrompts == 2       \* sub-prompts of one image
MaxTokens == 3           \* token vectors of a conditioning row

TokenTensor(kind, n, len) == [b \in 1..n |-> [j \in 1..len |-> <<kind, b, j>>]]

RECURSIVE SumSeq(_)
SumSeq(ns) == IF ns = <<>> THEN 0 ELSE Head(ns) + SumSeq(Tail(ns))

\* lines 244-249: the image conditioning of a dict, cut to the region when it
\* has the shape of the canvas
ImageConditioning(org_cond, bbox) ==
    IF org_cond = "dict_canvas" THEN <<"c_concat", Slice(bbox)>>
    ELSE IF org_cond = "dict_other" THEN <<"c_concat">>
    ELSE <<>>

\* an assertion that lets every request through
Composed_Never(conds_list) == FALSE

\* line 366: some image has more than one sub-prompt
Composed(conds_list) == \E i \in DOMAIN conds_list : conds_list[i] # 1

ANDError == "composition via AND is not supported for DDIM/PLMS samplers"

\* PadOrTruncate without the padding of a shorter negative conditioning
PadOrTruncate_NoPadding(u, p) ==
    [b \in DOMAIN u |-> IF Len(u[b]) > p THEN SubSeq(u[b], 1, p) ELSE u[b]]

\* lines 371-376: the negative conditioning brought to the token length p
PadOrTruncate(u, p) ==
    [b \in DOMAIN u |->
        LET q == Len(u[b])
        IN  IF q < p THEN u[b] \o [j \in 1..(p - q) |-> u[b][q]]
            ELSE IF q > p THEN SubSeq(u[b], 1, p)
            ELSE u[b]]

\* lines 380-382
Wrap(image_conditioning, crossattn) ==
    IF image_conditioning # <<>>
    THEN [c_concat |-> <<image_conditioning>>, c_crossattn |-> <<crossattn>>]
    ELSE [tensor |-> crossattn]

ddim_custom_forward(org_cond, conds_list, p, q) ==
    /\ pc = "hooked"
    /\ ~is_kdiff
    /\ LET bbox == BBox(0, 0, 1, 1)
           image_conditioning == ImageConditioning(org_cond, bbox)
           cond == TokenTensor("cond", SumSeq(conds_list), p)
           u == TokenTensor("uncond", Len(conds_list), q)
       IN  IF Composed(conds_list)
           THEN /\ error' = ANDError
                /\ calls' = <<>>
                /\ x_out' = <<>>
           ELSE /\ error' = None
                /\ calls' = <<[x |-> "x", c |-> Wrap(image_conditioning, cond),
                               ts |-> "ts",
                               unconditional_conditioning |->
                                   Wrap(image_conditioning, PadOrTruncate(u, p))]>>
                /\ x_out' = <<Out(1, 0)>>
    /\ last_call' = [name |-> "ddim_custom_forward", conds_list |-> conds_list,
                     p |-> p, q |-> q, org_cond |-> org_cond]
    /\ UNCHANGED <<pc, ctor_vars, region_vars, kdiff_step, is_edit_model,
                   batch_cond_uncond, step, kdiff_step_bbox, a, tensor, uncond,
                   all_pos_cond, all_neg_cond, real_tensor, real_uncond, req, history,
                   progress_vars, control_vars>>

NewDdim ==
    /\ pc = "new"
    /\ Construct(FALSE, 1, 1, 1, 1, 0, 1)
    /\ pc' = "constructed"
    /\ UNCHANGED <<error, dispatch_vars, calls, env_vars>>

DdimInit ==
    /\ pc = "constructed"
    /\ init(FALSE, MaxSamplingSteps)

DdimForward ==
    \E org_cond \in {"tensor", "dict_canvas", "dict_other"},
       conds_list \in UNION {[1..n -> 1..MaxSubPrompts] : n \in 1..MaxImages},
       p \in 1..MaxTokens, q \in 1..MaxTokens :
        ddim_custom_forward(org_cond, conds_list, p, q)

InitDdim == Blank
NextDdim == NewDdim \/ DdimInit \/ hook \/ DdimForward
SpecDdim == InitDdim /\ [][NextDdim]_vars

DdimServed == pc = "hooked" /\ last_call.name = "ddim_custom_forward"

\* C7: a request with exactly one sub-prompt per image invokes the callback
\* exactly once; a request where some image has more than one fails with the
\* 'composition via AND is not supported' error and invokes nothing.
C7_OneCallOrANDError ==
    DdimServed =>
        IF \A i \in DOMAIN last_call.conds_list : last_call.conds_list[i] = 1
        THEN Len(calls) = 1 /\ error = None
        ELSE Len(calls) = 0 /\ error = ANDError

C7_Witness ==
    /\ DdimServed
    /\ Len(last_call.conds_list) = MaxImages
    /\ last_call.conds_list[1] = 1
    /\ last_call.conds_list[MaxImages] > 1
    /\ error = ANDError
    /\ calls = <<>>

\* the negative conditioning the callback was handed
HandedUncond ==
    LET uc == calls[1].unconditional_conditioning
    IN  IF last_call.org_cond = "tensor" THEN uc.tensor ELSE uc.c_crossattn[1]

\* C8: for every accepted request the negative conditioning handed to the
\* callback has the token length p of the positive one: for q < p the original
\* followed by p - q copies of its last element, for q > p its first p
\* elements, for q = p the original; no length mismatch raises an error.
C8_UncondHasCondLength ==
    (DdimServed /\ ~Composed(last_call.conds_list)) =>
        /\ error = None
        /\ Len(calls) = 1
        /\ \A b \in DOMAIN HandedUncond :
               LET row == HandedUncond[b]
                   p == last_call.p
                   q == last_call.q
               IN  /\ Len(row) = p
                   /\ \A j \in 1..p :
                          row[j] = <<"uncond", b, IF j <= q THEN j ELSE q>>
        /\ Len(HandedUncond) = Len(last_call.conds_list)

C8_Witness ==
    /\ DdimServed
    /\ error = None
    /\ Len(calls) = 1
    /\ last_call.q = 1
    /\ last_call.p = MaxTokens
    /\ Len(HandedUncond[1]) = MaxTokens

(***************************************************************************)
(* Geometry of tiles and regions: the constructor on every canvas, tile    *)
(* size and overlap, followed by one region configuration.                 *)
(***************************************************************************)
\* a region that overhangs the right and bottom edge of the canvas.  For
\* tenths and canvases of at most a few hundred cells the float product
\* x * self.w truncates and rounds up as the exact product does: an integer
\* product is computed exactly and any other is at least 1/10 from an integer.
OverhangTuple ==
    <<TRUE, Frac(9, 10), Frac(9, 10), Frac(3, 10), Frac(3, 10), "p6", "n6", "Background", Frac(0, 1)>>

GeometryTuples == RegionTuples \cup {OverhangTuple}

NewGeometry ==
    /\ pc = "new"
    /\ \E cw \in Widths, ch \in Heights, tw0 \in TileSizes, th0 \in TileSizes,
          overlap0 \in Overlaps :
            Construct(FALSE, cw, ch, tw0, th0, overlap0, 1)
    /\ pc' = "constructed"
    /\ UNCHANGED <<error, dispatch_vars, calls, env_vars>>

\* the loop of init_custom_bbox does not reach the last tuple of its input, so
\* the tuple is given twice
GeometryConfigure ==
    /\ pc = "constructed"
    /\ last_call.name = "__init__"
    /\ \E t \in GeometryTuples : init_custom_bbox(TRUE, Flatten(<<t, t>>))

InitGeometry == Blank
NextGeometry == NewGeometry \/ GeometryConfigure
SpecGeometry == InitGeometry /\ [][NextGeometry]_vars

InsideCanvas(bbox, cw, ch) ==
    /\ bbox.w \in Nat /\ bbox.w > 0
    /\ bbox.h \in Nat /\ bbox.h > 0
    /\ bbox.x \in Nat
    /\ bbox.y \in Nat
    /\ bbox.x + bbox.w <= cw
    /\ bbox.y + bbox.h <= ch

\* C11: every tile of split_views and every region of init_custom_bbox has
\* integer w > 0 and h > 0 and lies inside the canvas; so does the region of
\* the tuple (0.9, 0.9, 0.3, 0.3) on a 64 x 64 canvas.
C11_BoxesInsideCanvas ==
    /\ pc = "constructed" =>
           /\ \A i \in DOMAIN batched_bboxes : \A j \in DOMAIN batched_bboxes[i] :
                  InsideCanvas(batched_bboxes[i][j], w, h)
           /\ \A i \in DOMAIN custom_bboxes : InsideCanvas(custom_bboxes[i], w, h)
    /\ InsideCanvas(CustomBBox(OverhangTuple, 64, 64), 64, 64)

\* a region that started left of the canvas and overhung its bottom edge,
\* on a canvas whose tiles had to be clamped
C11_Witness ==
    /\ pc = "constructed"
    /\ last_call.name = "init_custom_bbox"
    /\ Len(custom_bboxes) = 1
    /\ custom_bboxes[1].prompt_cache = "p2"
    /\ custom_bboxes[1].x = 0
    /\ custom_bboxes[1].y + custom_bboxes[1].h = h
    /\ w = WideW
    /\ Len(batched_bboxes) > 1

(***************************************************************************)
(* Batching: the constructor on every requested batch size.                *)
(***************************************************************************)
NewBatches ==
    /\ pc = "new"
    /\ \E cw \in Widths, ch \in Heights, tw0 \in TileSizes, bs0 \in BatchSizes :
            Construct(FALSE, cw, ch, tw0, tw0, 0, bs0)
    /\ pc' = "constructed"
    /\ UNCHANGED <<error, dispatch_vars, calls, env_vars>>

InitBatches == Blank
NextBatches == NewBatches
SpecBatches == InitBatches /\ [][NextBatches]_vars

\* the tile list split_views returned to the constructor
BBoxListOfCall ==
    LET tw == Min(last_call.tile_w, w)
        th == Min(last_call.tile_h, h)
    IN  split_views(w, h, tw, th, ClampOverlap(last_call.overlap, Min(tw, th))).bbox_list

\* C15: for n tiles and requested batch size b the constructor builds
\* ceil(n/b) batches, none empty and none larger than b, whose concatenation
\* in order is the tile list: the j-th tile of batch i is tile (i-1)*b + j and
\* the sizes add up to n.
C15_BatchesPartitionTiles ==
    pc = "constructed" =>
        LET bboxes == BBoxListOfCall
            n == Len(bboxes)
            b == last_call.tile_batch_size
        IN  /\ Len(batched_bboxes) = CeilDiv(n, b)
            /\ num_batches = CeilDiv(n, b)
            /\ \A i \in DOMAIN batched_bboxes :
                   /\ Len(batched_bboxes[i]) >= 1
                   /\ Len(batched_bboxes[i]) <= b
                   /\ i < Len(batched_bboxes) => Len(batched_bboxes[i]) = b
                   /\ \A j \in DOMAIN batched_bboxes[i] :
                          /\ (i - 1) * b + j <= n
                          /\ batched_bboxes[i][j] = bboxes[(i - 1) * b + j]
            /\ (Len(batched_bboxes) - 1) * b + Len(batched_bboxes[Len(batched_bboxes)]) = n

\* several batches, the last one partial
C15_Witness ==
    /\ pc = "constructed"
    /\ Len(batched_bboxes) >= 2
    /\ last_call.tile_batch_size = MaxBatch
    /\ Len(batched_bboxes[1]) = MaxBatch
    /\ Len(batched_bboxes[Len(batched_bboxes)]) < MaxBatch

\* C18: every kdiff_custom_forward call for an existing region reaches the
\* callback at least once and never reads a cache entry that was not stored
\* for the region earlier in the step.
C18_EveryCallReachesCallback ==
    (pc = "idle" /\ last_call.name = "kdiff_custom_forward") =>
        /\ Len(calls) >= 1
        /\ error # "KeyError"

\* n / d rounded to the nearest integer, for n >= 0 and d >= 1, ties to even
\* as Python's round
RoundDiv(n, d) ==
    LET q == n \div d
        r == n % d
    IN  IF 2 * r < d THEN q
        ELSE IF 2 * r > d THEN q + 1
        ELSE IF q % 2 = 0 THEN q ELSE q + 1

\* the offsets round(c * (size - tile) / (n - 1)) of n tiles along one axis
RoundedOffsets(n, size, tile) ==
    IF n > 1 THEN {RoundDiv(c * (size - tile), n - 1) : c \in 0..(n - 1)} ELSE {0}

\* C19: the x offset of the tile in column c is round(c*(W-tw)/(cols-1)) for
\* cols > 1 and 0 for a single column, and likewise for the rows: the tiles'
\* offsets along each axis are exactly the rounded ones.
C19_OffsetsAreRounded ==
    pc = "constructed" =>
        LET overlap == ClampOverlap(last_call.overlap, Min(tile_w, tile_h))
            cols == CeilDiv(w - overlap, tile_w - overlap)
            rows == CeilDiv(h - overlap, tile_h - overlap)
            boxes == UNION {{batched_bboxes[i][j] : j \in DOMAIN batched_bboxes[i]} :
                               i \in DOMAIN batched_bboxes}
        IN  /\ {bbox.x : bbox \in boxes} = RoundedOffsets(cols, w, tile_w)
            /\ {bbox.y : bbox \in boxes} = RoundedOffsets(rows, h, tile_h)

(***************************************************************************)
(* Feather masks: one foreground region that fills a canvas of every size  *)
(* up to MaxMask, with every feather ratio of FeatherRatios.               *)
(***************************************************************************)
MaxMask == 6

\* the ratios 0, 1/4, .. 1 and one above 1, which the region clamps to 1
FeatherRatios == {Frac(k, 4) : k \in 0..5}

FeatherTuple(ratio) ==
    <<TRUE, Frac(0, 1), Frac(0, 1), Frac(1, 1), Frac(1, 1), "p", "n", "Foreground", ratio>>

NewFeather ==
    /\ pc = "new"
    /\ \E cw \in 1..MaxMask, ch \in 1..MaxMask : Construct(FALSE, cw, ch, cw, ch, 0, 1)
    /\ pc' = "constructed"
    /\ UNCHANGED <<error, dispatch_vars, calls, env_vars>>

FeatherConfigure ==
    /\ pc = "constructed"
    /\ last_call.name = "__init__"
    /\ \E ratio \in FeatherRatios :
           init_custom_bbox(TRUE, Flatten(<<FeatherTuple(ratio), FeatherTuple(ratio)>>))

InitFeather == Blank
NextFeather == NewFeather \/ FeatherConfigure
SpecFeather == InitFeather /\ [][NextFeather]_vars

\* a foreground region has been built; Region is that region
RegionBuilt ==
    /\ pc = "constructed"
    /\ last_call.name = "init_custom_bbox"
    /\ Len(custom_bboxes) = 1

Region == custom_bboxes[1]
Radius == FeatherRadius(Region.w, Region.h, Region.feather_ratio)
Corners == {0, Region.h - 1} \X {0, Region.w - 1}
Centers == {(Region.h - 1) \div 2, Region.h \div 2} \X {(Region.w - 1) \div 2, Region.w \div 2}
IsZero(weight) == weight.num = 0 /\ weight.den > 0
IsOne(weight) == weight.num = weight.den /\ weight.den > 0

\* C16 as stated: with feather ratio 1 and min(w, h) >= 2 the mask is 1 at
\* its center cell(s) and 0 at its four corners.
C16_CenterOneCornersZero ==
    (RegionBuilt /\ Region.feather_ratio = One /\ Min(Region.w, Region.h) >= 2) =>
        /\ \A cell \in Centers : IsOne(Region.feather_mask[cell])
        /\ \A cell \in Corners : IsZero(Region.feather_mask[cell])

\* C16 amended: with feather ratio 1 and min(w, h) >= 2 the mask is 0 at its
\* four corners; it is 1 at its center cell(s) when w or h is odd, and when
\* both are even each of the four center cells has ((r-1)/r)^2 with
\* r = min(w, h) / 2, which is 0 when min(w, h) = 2.
C16_CornersZeroCenterByParity ==
    (RegionBuilt /\ Region.feather_ratio = One /\ Min(Region.w, Region.h) >= 2) =>
        LET r == Min(Region.w, Region.h) \div 2
        IN  /\ \A cell \in Corners : IsZero(Region.feather_mask[cell])
            /\ \A cell \in Centers :
                   IF Region.w % 2 = 1 \/ Region.h % 2 = 1
                   THEN IsOne(Region.feather_mask[cell])
                   ELSE Region.feather_mask[cell] = Frac((r - 1) * (r - 1), r * r)

\* an even by even region whose center is below 1 but above 0
C16_Witness ==
    /\ RegionBuilt
    /\ Region.feather_ratio = One
    /\ Region.w = 4 /\ Region.h = MaxMask
    /\ Region.feather_mask[<<2, 2>>] = Frac(1, 4)
    /\ IsZero(Region.feather_mask[<<0, 0>>])

\* C17: with a feather radius of 0 the mask is 1 in every cell and no
\* division by the radius is evaluated.
C17_ZeroRadiusAllOnes ==
    (RegionBuilt /\ Radius = 0) =>
        \A cell \in DOMAIN Region.feather_mask :
            /\ Region.feather_mask[cell].den # 0
            /\ IsOne(Region.feather_mask[cell])

\* a positive ratio whose radius rounds to 0
C17_Witness ==
    /\ RegionBuilt
    /\ Radius = 0
    /\ Region.feather_ratio = Frac(1, 4)
    /\ Region.w = MaxMask /\ Region.h > 1
    /\ \A cell \in DOMAIN Region.feather_mask : IsOne(Region.feather_mask[cell])

\* C20: for every region size and feather radius r >= 1 every cell has
\* weight (d/r)^2 when d < r and 1 otherwise, d being the smaller of the
\* cell's distances to its nearest horizontal and vertical edge; so every
\* border cell has weight 0 and all weights lie in [0, 1].
C20_WeightByEdgeDistance ==
    (RegionBuilt /\ Radius >= 1) =>
        \A cell \in DOMAIN Region.feather_mask :
            LET d == Min(Min(cell[1], Region.h - 1 - cell[1]),
                         Min(cell[2], Region.w - 1 - cell[2]))
                weight == Region.feather_mask[cell]
            IN  /\ weight = (IF d < Radius THEN Frac(d * d, Radius * Radius) ELSE One)
                /\ d = 0 => IsZero(weight)
                /\ 0 <= weight.num /\ weight.num <= weight.den

(***************************************************************************)
(* The progress bar: update_pbar after each completed unit of work.        *)
(***************************************************************************)
MaxProgressSteps == 3

\* update_pbar: the bar is closed once full; within the sampler step that
\* step_count holds the bar advances while inner_loop_count stays below
\* total_bboxes; a call in a new sampler step only records the step
update_pbar ==
    LET bar == pbar[1]
    IN  IF bar.n >= bar.total
        THEN UNCHANGED <<pbar, step_count, inner_loop_count>>
        ELSE IF step_count = sampling_step
        THEN /\ inner_loop_count' = inner_loop_count + 1
             /\ pbar' = IF inner_loop_count + 1 < total_bboxes
                        THEN Some([bar EXCEPT !.n = @ + 1])
                        ELSE pbar
             /\ UNCHANGED step_count
        ELSE /\ step_count' = sampling_step
             /\ inner_loop_count' = 0
             /\ UNCHANGED pbar

\* a coordinator on a canvas of cw x ch tiles of one cell, before the first
\* sampler step (state.sampling_step = 0) and the first unit of work
NewProgress ==
    /\ pc = "new"
    /\ \E cw \in 1..MaxSmallW, ch \in 1..MaxH : Construct(FALSE, cw, ch, 1, 1, 0, 1)
    /\ pc' = "constructed"
    /\ sampling_step' = 0
    /\ units' = 0
    /\ UNCHANGED <<error, dispatch_vars, calls, hint_cond>>

ProgressInit ==
    /\ pc = "constructed"
    /\ \E sampling_steps \in 1..MaxProgressSteps : init(FALSE, sampling_steps)

\* one unit of work (a tile batch or a region in one sampler step) completes
\* and update_pbar is called; the sampler's step counter advances after every
\* total_bboxes units
CompleteUnit ==
    /\ pc = "ready"
    /\ units < pbar[1].total
    /\ update_pbar
    /\ units' = units + 1
    /\ sampling_step' = (units + 1) \div total_bboxes
    /\ last_call' = [name |-> "update_pbar"]
    /\ UNCHANGED <<pc, error, ctor_vars, custom_bboxes, draw_background, total_bboxes,
                   kdiff_vars, calls, control_vars>>

InitProgress == Blank
NextProgress == NewProgress \/ ProgressInit \/ CompleteUnit
SpecProgress == InitProgress /\ [][NextProgress]_vars

\* C12: with update_pbar called once after each completed unit and the step
\* counter advancing after every total_bboxes units, the progress counter
\* equals the number of completed units.
C12_CounterEqualsUnits ==
    pc = "ready" => pbar[1].n = units

(***************************************************************************)
(* The ControlNet hint cache: built by init, switched in by                *)
(* switch_controlnet_tensors and set_control_tensor, switched out by       *)
(* reset_controlnet_tensors and hook.                                      *)
(***************************************************************************)
MaxHintImages == 2
MaxXBatch == 2

\* the ControlNet scripts of the model: none, one without a network, one whose
\* network has no control_params, and networks with zero, one and two
\* parameters (a 3-dimensional hint and a 4-dimensional one)
ControlScripts ==
    { NoScript,
      Script(TRUE, FALSE, FALSE, <<>>),
      Script(TRUE, TRUE, FALSE, <<>>),
      Script(TRUE, TRUE, TRUE, <<>>),
      Script(TRUE, TRUE, TRUE, <<[dims |-> 3, images |-> 1]>>),
      Script(TRUE, TRUE, TRUE, <<[dims |-> 3, images |-> 1],
                                 [dims |-> 4, images |-> MaxHintImages]>>) }

\* the hints the network of a script holds before the coordinator switches any
NetworkHints(script) ==
    [i \in DOMAIN script.params |->
        Hint(i, script.params[i].dims, script.params[i].images)]

\* two regions: the left half of the canvas and the whole canvas
ControlTuples ==
    << <<TRUE, Frac(0, 1), Frac(0, 1), Frac(1, 2), Frac(1, 1), "p", "n", "Background", Frac(0, 1)>>,
       KdiffTuple >>

NewControl ==
    /\ pc = "new"
    /\ \E script \in ControlScripts, kd \in BOOLEAN, cw \in {2, 4}, bs0 \in 1..MaxBatch :
            /\ ConstructWith(script, kd, cw, 2, 2, 2, 0, bs0)
            /\ hint_cond' = NetworkHints(script)
    /\ pc' = "constructed"
    /\ UNCHANGED <<error, dispatch_vars, calls, sampling_step, units>>

\* the regions are configured before the first init: prepare_control_tensors
\* crops for the regions that exist when it builds the cache (line 418)
ControlConfigure ==
    /\ pc = "constructed"
    /\ last_call.name = "__init__"
    /\ \E background \in BOOLEAN, n \in 0..Len(ControlTuples) :
           init_custom_bbox(background, Flatten(SubSeq(ControlTuples, 1, n)))

ControlInit ==
    /\ pc \in {"constructed", "ready"}
    /\ init(FALSE, MaxSamplingSteps)

\* switch_controlnet_tensors(batch_id, x_batch_size, tile_batch_size, is_denoise)
switch_controlnet_tensors(batch_id, x_batch_size, n_tiles, is_denoise) ==
    /\ pc \in {"ready", "hooked"}
    /\ hint_cond' = SwitchedHints(batch_id, x_batch_size, n_tiles, is_denoise)
    /\ last_call' = [name |-> "switch_controlnet_tensors", after |-> last_call.name,
                     id |-> batch_id, size |-> x_batch_size, n_tiles |-> n_tiles,
                     is_denoise |-> is_denoise]
    /\ UNCHANGED <<pc, error, ctor_vars, region_vars, kdiff_vars, calls, progress_vars,
                   controlnet_script, control_params, control_tensor_batch,
                   org_control_tensor_batch, control_tensor_custom>>

\* set_control_tensor(bbox_id, repeat_size)
set_control_tensor(bbox_id, repeat_size) ==
    /\ pc \in {"ready", "hooked"}
    /\ hint_cond' = SetHints(bbox_id, repeat_size)
    /\ last_call' = [name |-> "set_control_tensor", after |-> last_call.name,
                     id |-> bbox_id, size |-> repeat_size, n_tiles |-> 0,
                     is_denoise |-> FALSE]
    /\ UNCHANGED <<pc, error, ctor_vars, region_vars, kdiff_vars, calls, progress_vars,
                   controlnet_script, control_params, control_tensor_batch,
                   org_control_tensor_batch, control_tensor_custom>>

\* reset_controlnet_tensors()
reset_controlnet_tensors ==
    /\ pc \in {"ready", "hooked"}
    /\ hint_cond' = ResetHints
    /\ last_call' = [name |-> "reset_controlnet_tensors", after |-> last_call.name]
    /\ UNCHANGED <<pc, error, ctor_vars, region_vars, kdiff_vars, calls, progress_vars,
                   controlnet_script, control_params, control_tensor_batch,
                   org_control_tensor_batch, control_tensor_custom>>

\* a switch to a tile batch, with the number of tiles of that batch or fewer
SwitchBatch ==
    /\ pc \in {"ready", "hooked"}
    /\ \E batch_id \in 0..(Len(batched_bboxes) - 1), x_batch_size \in 1..MaxXBatch,
          is_denoise \in BOOLEAN :
        \E n_tiles \in 1..Len(batched_bboxes[batch_id + 1]) :
            switch_controlnet_tensors(batch_id, x_batch_size, n_tiles, is_denoise)

\* a switch to a region
SetRegion ==
    /\ pc \in {"ready", "hooked"}
    /\ \E bbox_id \in 0..(Len(custom_bboxes) - 1), repeat_size \in 1..MaxXBatch :
        set_control_tensor(bbox_id, repeat_size)

InitControl == Blank
NextControl ==
    \/ NewControl
    \/ ControlConfigure
    \/ ControlInit
    \/ SwitchBatch
    \/ SetRegion
    \/ reset_controlnet_tensors
    \/ hook
SpecControl == InitControl /\ [][NextControl]_vars

\* the coordinator is set up and its hint cache has been built
CacheBuilt == pc \in {"ready", "hooked"} /\ control_tensor_batch # Unset

\* C13: once the cache has been built, after reset_controlnet_tensors or hook
\* every control parameter's live hint is the original un-cropped hint of the
\* network, whatever switches came before.
C13_ResetRestoresOriginal ==
    (CacheBuilt /\ last_call.name \in {"reset_controlnet_tensors", "hook"}) =>
        hint_cond = NetworkHints(controlnet_script)

\* a reset of two parameters that follows a switch to a tile batch or a region
C13_Witness ==
    /\ CacheBuilt
    /\ last_call.name = "reset_controlnet_tensors"
    /\ last_call.after \in {"switch_controlnet_tensors", "set_control_tensor"}
    /\ Len(hint_cond) = 2
    /\ Len(control_tensor_custom) > 0

\* the crop of parameter i's original hint for batch b, from the original
\* hints and the tile boxes alone
CropsOfBatch(i, b) ==
    Cat([j \in DOMAIN batched_bboxes[b] |->
            CropHint(NetworkHints(controlnet_script)[i], batched_bboxes[b][j])])

\* what one switch to tile batch c.id writes from the original state
WrittenBySwitch(c) ==
    [i \in DOMAIN controlnet_script.params |->
        LET crop == CropsOfBatch(i, c.id + 1)
        IN  [dims |-> 4,
             rows |-> IF is_kdiff
                      THEN Flatten([t \in 1..c.n_tiles |->
                                        [k \in 1..c.size |-> crop.rows[t]]])
                      ELSE Flatten([k \in 1..(IF c.is_denoise THEN c.size ELSE 2 * c.size)
                                        |-> crop.rows])]]

\* what one switch to region c.id writes from the original state
WrittenBySet(c) ==
    IF Len(custom_bboxes) = 0 \/ Len(controlnet_script.params) = 0
    THEN NetworkHints(controlnet_script)
    ELSE [i \in DOMAIN controlnet_script.params |->
            [dims |-> 4,
             rows |-> Flatten([k \in 1..c.size |->
                        CropHint(NetworkHints(controlnet_script)[i],
                                 custom_bboxes[c.id + 1]).rows])]]

\* C14: after any sequence of switches to tile batches and regions with no
\* reset between them, the live hints are what the last switch alone writes
\* from the original state, and the cached crops are the crops of the
\* original hints.
C14_LastSwitchWins ==
    /\ (CacheBuilt /\ last_call.name = "switch_controlnet_tensors") =>
            hint_cond = WrittenBySwitch(last_call)
    /\ (CacheBuilt /\ last_call.name = "set_control_tensor") =>
            hint_cond = WrittenBySet(last_call)
    /\ CacheBuilt =>
            /\ control_tensor_batch[1] =
                    [i \in DOMAIN controlnet_script.params |->
                        [b \in DOMAIN batched_bboxes |-> CropsOfBatch(i, b)]]
            /\ org_control_tensor_batch[1] = NetworkHints(controlnet_script)
            /\ \A i \in DOMAIN control_tensor_custom, r \in DOMAIN custom_bboxes :
                    control_tensor_custom[i][r] =
                        CropHint(NetworkHints(controlnet_script)[i], custom_bboxes[r])

\* a switch to a region that follows a switch to a tile batch of two tiles
C14_Witness ==
    /\ CacheBuilt
    /\ last_call.name = "set_control_tensor"
    /\ last_call.after = "switch_controlnet_tensors"
    /\ Len(hint_cond) = 2
    /\ Len(batched_bboxes[1]) = 2
    /\ Len(control_tensor_custom) = 2

(***************************************************************************)
(* Repeated init_custom_bbox calls on one coordinator.                     *)
(***************************************************************************)
\* the weight map is zero at every cell of the canvas
WeightsAllZero == \A cell \in Cells : weights[cell] = 0

\* C21: after any sequence of init_custom_bbox calls, with draw_background
\* true the weight map is > 0 at every canvas cell, with draw_background
\* false at least one custom region exists, and the weight map is all-zero
\* only while background drawing is disabled.
C21_BackgroundKeepsWeights ==
    (pc \in {"constructed", "ready"} /\ last_call.name = "init_custom_bbox") =>
        /\ draw_background => \A cell \in Cells : weights[cell] > 0
        /\ ~draw_background => Len(custom_bboxes) >= 1
        /\ WeightsAllZero => ~draw_background

(***************************************************************************)
(* Interleaved kdiff_custom_forward calls for different regions.           *)
(***************************************************************************)
\* a step of a kdiff_custom_forward call made while the sampler step is the
\* one the previous call saw: its entry with kdiff_step = step, or the rest
\* of a call that entered so
SameStepCall ==
    \/ pc = "idle" /\ pc' = "select" /\ kdiff_step = step
    \/ pc = "select" /\ pc' = "idle" /\ ~req.step_changed

\* the cache entry of region j (0-based) is the same before and after
CacheKept(dict, dict2, j) ==
    /\ (j \in DOMAIN dict) <=> (j \in DOMAIN dict2)
    /\ j \in DOMAIN dict => dict2[j] = dict[j]

\* C22: while the sampler step is unchanged, a kdiff_custom_forward call for
\* region i leaves the cursor, the per-step marker and the cached
\* conditioning of every other region j # i unchanged.
C22_OtherRegionsUntouched ==
    [][SameStepCall =>
          \A j \in DOMAIN custom_bboxes :
              j # req'.bbox_id + 1 =>
                  /\ a'[j] = a[j]
                  /\ kdiff_step_bbox'[j] = kdiff_step_bbox[j]
                  /\ CacheKept(tensor, tensor', j - 1)
                  /\ CacheKept(uncond, uncond', j - 1)]_vars

\* a call for one region has just been served in a step in which the other
\* region has a cached conditioning and a cursor that has moved
C22_Witness ==
    /\ pc = "idle"
    /\ last_call.name = "kdiff_custom_forward"
    /\ ~req.step_changed
    /\ error = None
    /\ \E j \in DOMAIN custom_bboxes :
           /\ j # req.bbox_id + 1
           /\ (j - 1) \in DOMAIN tensor
           /\ a[j] > 0
           /\ kdiff_step_bbox[j] = step
           /\ a[req.bbox_id + 1] > 0

=============================================================================
